---- MODULE Spec2Model ----
(***************************************************************************)
(* CompoundMessenger (src/token/channel_messenger/compound_messenger.rs):  *)
(* a ChannelMessenger that owns two ChannelMessengers, `default` and       *)
(* `other`, and an AtomicUsize `select` that says which of them serves     *)
(* send_auth_message and receive_auth_message.                             *)
(*                                                                         *)
(* send_auth_message and receive_auth_message take &self, so any number of *)
(* them may be in flight on one CompoundMessenger; every await and every   *)
(* atomic access is a step of its own.  with_context takes &mut self, so   *)
(* it runs only while no other call on the same value is in flight.        *)
(* The two owned channels are arbitrary implementations of the trait: each *)
(* invocation of a channel returns Ok or Err, chosen freely.               *)
(***************************************************************************)
EXTENDS Integers, Sequences, FiniteSets, TLC

\* ------------------------------------------------------------------ bounds
\* Number of callers that may hold a call on the coordinator at once.
NumCallers == 2
\* Number of calls started on the coordinator over one behaviour.
MaxCalls == 3
\* Number of calls started over one behaviour of the fair specification.
MaxFairCalls == 2
\* Number of calls started on the nested coordinator over one behaviour.
MaxNestCalls == 3

\* ------------------------------------------------------- program constants
\* AtomicUsize: fetch_add wraps around past usize::MAX.  usize is 64 bits
\* wide on the crate's targets; the checker's integers are 32-bit, so the
\* model wraps at the largest width it can hold.  Both are far above every
\* value `select` can take with a bounded number of callers.
UsizeBits == 30

UsizeModulus == 2 ^ UsizeBits

Procs == 1 .. NumCallers

Channels == {"default", "other"}

\* ------------------------------------------------------------ result values
\* Result<(), Error> and Result<String, Error>.
Ok(v) == [ok |-> TRUE, val |-> v]

Err(m) == [ok |-> FALSE, val |-> m]

Unit == "()"

\* Error::ChannelMessenger(..) built by the coordinator itself.
ErrNoSend == Err("No Messengers available to send")

ErrNoRecv == Err("No Messengers receive successfully")

\* Error returned by an owned channel (its text is the channel's business).
ChannelErr(ch) == IF ch = "default" THEN Err("default channel failed")
                  ELSE Err("other channel failed")

\* What a channel's send_auth_message / with_context may return.
UnitOutcomes(ch) == {Ok(Unit), ChannelErr(ch)}

\* What a channel's receive_auth_message may return.
RecvOutcomes(ch) == {Ok("code"), ChannelErr(ch)}

NoRes == [ok |-> FALSE, val |-> "pending"]

\* ------------------------------------------------------------- AuthContext
None == "None"

AuthContext(u, c, r) == [auth_url |-> u, csrf |-> c, redirect_url |-> r]

\* The contexts a caller passes: the one of test_compound_messenger and a
\* partially populated one (every field is an Option).
Contexts == { AuthContext("https://127.0.0.1:8081/?state=CSRF&code=code",
                          "CSRF", "https://127.0.0.1:8081"),
              AuthContext("https://127.0.0.1:8081/?state=CSRF&code=code",
                          None, None) }

NoCtx == "NoCtx"

\* context.clone(): a new value with every field copied.
CloneCtx(c) == [auth_url |-> c.auth_url, csrf |-> c.csrf,
                redirect_url |-> c.redirect_url]

\* ------------------------------------------------------------------- state
VARIABLES
    select,     \* self.select
    chanCtx,    \* the context each owned channel was last given
    pc,         \* where each caller's call stands
    op,         \* the operation each caller has in flight
    sel,        \* the value the caller's last select.load returned
    ch,         \* the channel the caller's match arm picked
    arg,        \* the context a with_context call was given
    res,        \* the value the call returns
    calls,      \* calls started so far
    \* history, read by the properties only
    trace,      \* the channel invocations of the caller's current call
    incs,       \* the fetch_adds of the caller's current call
    startSel,   \* select when the call started
    solo,       \* no other call was in flight during this call
    advanced,   \* a send failed on default and its fetch_add has run
    sendFailed, \* the channels whose send has failed at least once
    failedSends, \* failed channel sends since construction
    exhausted,  \* select has been seen at 2 or more
    okVia,      \* the channels through which a send or receive returned Ok
    last,       \* the latest return of a call, and the call started next
    nest        \* a coordinator whose default is itself a coordinator

vars == << select, chanCtx, pc, op, sel, ch, arg, res, calls,
           trace, incs, startSel, solo, advanced, sendFailed, failedSends,
           exhausted, okVia, last, nest >>

\* ---------------------------------------------------------------- helpers
\* AtomicUsize::fetch_add(n): wrapping addition.
FetchAddWrapsAtTwo(s, n) == (s + n) % 2

FetchAdd(s, n) == (s + n) % UsizeModulus

\* The match of send_auth_message on the loaded value.
SendRouteBack(s) == IF s = 0 THEN "default"
                    ELSE IF s = 1 THEN "default"
                    ELSE "none"

SendRouteNoLimit(s) == IF s = 0 THEN "default" ELSE "other"

SendRoute(s) == IF s = 0 THEN "default"
                ELSE IF s = 1 THEN "other"
                ELSE "none"

\* The match of receive_auth_message on the loaded value.
RecvRouteSwapped(s) == IF s = 0 THEN "other"
                       ELSE IF s = 1 THEN "default"
                       ELSE "none"

RecvRoute(s) == IF s = 0 THEN "default"
                ELSE IF s = 1 THEN "other"
                ELSE "none"

InFlight(p) == pc[p] # "idle"

Entry(c, out, a, adv) == [ch |-> c, out |-> out, arg |-> a, adv |-> adv,
                          okv |-> ("other" \in okVia)]

\* The awaited channel call of the last entry has returned `out`.
SetLastOut(t, out) == [t EXCEPT ![Len(t)].out = out]

\* What `last` remembers of a call at its return: a send that returned Ok
\* (with the channel and the select value of its last load), a with_context
\* that failed on other after default accepted the context, or anything else.
\* `next` is the caller whose call was the first to start after that return.
LastNone == [kind |-> "none", ch |-> "none", sel |-> 0, solo |-> FALSE, next |-> 0]

LastOther == [kind |-> "other", ch |-> "none", sel |-> 0, solo |-> FALSE, next |-> 0]

Summary(p) ==
    IF op[p] = "send" /\ res[p].ok
    THEN [kind |-> "sendOk", ch |-> ch[p], sel |-> sel[p], solo |-> solo[p],
          next |-> 0]
    ELSE IF op[p] = "install" /\ ~res[p].ok /\ Len(trace[p]) = 2
    THEN [kind |-> "partial", ch |-> "none", sel |-> startSel[p],
          solo |-> solo[p], next |-> 0]
    ELSE LastOther

\* The nested coordinator before any call (see the section on nesting).
NestInit == [osel |-> 0, isel |-> 0, opc |-> "idle", ipc |-> "idle",
             oop |-> "none", ich |-> "none", ires |-> NoRes, ores |-> NoRes,
             tr |-> << >>, failed |-> {}, sentOn |-> "none", n |-> 0]

\* A call starts: bookkeeping shared by the three operations.
Begin(p, o, a) ==
    /\ pc[p] = "idle"
    /\ calls < MaxCalls
    /\ calls' = calls + 1
    /\ op' = [op EXCEPT ![p] = o]
    /\ arg' = [arg EXCEPT ![p] = a]
    /\ res' = [res EXCEPT ![p] = NoRes]
    /\ sel' = [sel EXCEPT ![p] = 0]
    /\ ch' = [ch EXCEPT ![p] = "none"]
    /\ trace' = [trace EXCEPT ![p] = << >>]
    /\ incs' = [incs EXCEPT ![p] = 0]
    /\ startSel' = [startSel EXCEPT ![p] = select]
    /\ solo' = [q \in Procs |->
                   IF q = p THEN \A r \in Procs \ {p} : ~InFlight(r)
                   ELSE FALSE]
    /\ last' = IF last.kind \in {"sendOk", "partial"} /\ last.next = 0
                THEN [last EXCEPT !.next = p]
                ELSE LastOther
    /\ UNCHANGED << select, chanCtx, advanced, sendFailed, failedSends,
                    exhausted, okVia, nest >>

\* ------------------------------------------------------- send_auth_message
\* A caller calls send_auth_message(&self).
SendCall(p) ==
    /\ \A q \in Procs : op[q] # "install"
    /\ Begin(p, "send", NoCtx)
    /\ pc' = [pc EXCEPT ![p] = "send_load"]

\* loop { match self.select.load(Acquire) { 0 => .., 1 => .., _ => return Err } }
SendLoad(p) ==
    /\ pc[p] = "send_load"
    /\ sel' = [sel EXCEPT ![p] = select]
    /\ ch' = [ch EXCEPT ![p] = SendRoute(select)]
    /\ IF SendRoute(select) = "none"
       THEN /\ pc' = [pc EXCEPT ![p] = "ret"]
            /\ res' = [res EXCEPT ![p] = ErrNoSend]
            /\ trace' = trace
       ELSE /\ pc' = [pc EXCEPT ![p] = "send_await"]
            /\ res' = res
            /\ trace' = [trace EXCEPT ![p] =
                  Append(@, Entry(SendRoute(select), NoRes, NoCtx, advanced))]
    /\ UNCHANGED << select, chanCtx, op, arg, calls,
                    incs, startSel, solo, advanced, sendFailed, failedSends,
                    exhausted, okVia, last, nest >>

\* self.<channel>.send_auth_message().await completes with `out`;
\* match result { Ok(()) => return Ok(()), Err(e) => { println!; .. } }
SendAwaitIncOnOk(p, out) ==
    /\ pc[p] = "send_await"
    /\ out \in UnitOutcomes(ch[p])
    /\ trace' = [trace EXCEPT ![p] = SetLastOut(@, out)]
    /\ pc' = [pc EXCEPT ![p] = "send_inc"]
    /\ res' = res
    /\ sendFailed' = IF out.ok THEN sendFailed ELSE sendFailed \cup {ch[p]}
    /\ failedSends' = IF out.ok THEN failedSends ELSE failedSends + 1
    /\ okVia' = IF out.ok THEN okVia \cup {ch[p]} ELSE okVia
    /\ UNCHANGED << select, chanCtx, op, sel, ch, arg, calls,
                    incs, startSel, solo, advanced,
                    exhausted, last, nest >>

SendAwaitNoFailover(p, out) ==
    /\ pc[p] = "send_await"
    /\ out \in UnitOutcomes(ch[p])
    /\ trace' = [trace EXCEPT ![p] = SetLastOut(@, out)]
    /\ pc' = [pc EXCEPT ![p] = "ret"]
    /\ res' = [res EXCEPT ![p] = out]
    /\ sendFailed' = IF out.ok THEN sendFailed ELSE sendFailed \cup {ch[p]}
    /\ failedSends' = IF out.ok THEN failedSends ELSE failedSends + 1
    /\ okVia' = IF out.ok THEN okVia \cup {ch[p]} ELSE okVia
    /\ UNCHANGED << select, chanCtx, op, sel, ch, arg, calls,
                    incs, startSel, solo, advanced,
                    exhausted, last, nest >>

SendAwait(p, out) ==
    /\ pc[p] = "send_await"
    /\ out \in UnitOutcomes(ch[p])
    /\ trace' = [trace EXCEPT ![p] = SetLastOut(@, out)]
    /\ IF out.ok
       THEN /\ pc' = [pc EXCEPT ![p] = "ret"]
            /\ res' = [res EXCEPT ![p] = Ok(Unit)]
            /\ UNCHANGED << sendFailed, failedSends >>
       ELSE /\ pc' = [pc EXCEPT ![p] = "send_inc"]
            /\ res' = res
            /\ sendFailed' = sendFailed \cup {ch[p]}
            /\ failedSends' = failedSends + 1
    /\ okVia' = IF out.ok THEN okVia \cup {ch[p]} ELSE okVia
    /\ UNCHANGED << select, chanCtx, op, sel, ch, arg, calls,
                    incs, startSel, solo, advanced,
                    exhausted, last, nest >>

\* self.select.fetch_add(1, AcqRel); continue;
SendIncForgotten(p) ==
    /\ pc[p] = "send_inc"
    /\ incs' = [incs EXCEPT ![p] = @ + 1]
    /\ pc' = [pc EXCEPT ![p] = "send_load"]
    /\ UNCHANGED << select, chanCtx, op, sel, ch, arg, res, calls,
                    trace, startSel, solo, advanced, sendFailed, failedSends,
                    exhausted, okVia, last, nest >>

SendInc(p) ==
    /\ pc[p] = "send_inc"
    /\ select' = FetchAdd(select, 1)
    /\ incs' = [incs EXCEPT ![p] = @ + 1]
    /\ advanced' = (advanced \/ ch[p] = "default")
    /\ pc' = [pc EXCEPT ![p] = "send_load"]
    /\ exhausted' = (exhausted \/ FetchAdd(select, 1) >= 2)
    /\ UNCHANGED << chanCtx, op, sel, ch, arg, res, calls,
                    trace, startSel, solo, sendFailed, failedSends,
                    okVia, last, nest >>

\* ---------------------------------------------------- receive_auth_message
\* A caller calls receive_auth_message(&self).
RecvCall(p) ==
    /\ \A q \in Procs : op[q] # "install"
    /\ Begin(p, "recv", NoCtx)
    /\ pc' = [pc EXCEPT ![p] = "recv_load"]

\* match self.select.load(Acquire) { 0 => .., 1 => .., _ => Err(..) }
RecvLoad(p) ==
    /\ pc[p] = "recv_load"
    /\ sel' = [sel EXCEPT ![p] = select]
    /\ ch' = [ch EXCEPT ![p] = RecvRoute(select)]
    /\ IF RecvRoute(select) = "none"
       THEN /\ pc' = [pc EXCEPT ![p] = "ret"]
            /\ res' = [res EXCEPT ![p] = ErrNoRecv]
            /\ trace' = trace
       ELSE /\ pc' = [pc EXCEPT ![p] = "recv_await"]
            /\ res' = res
            /\ trace' = [trace EXCEPT ![p] =
                  Append(@, Entry(RecvRoute(select), NoRes, NoCtx, advanced))]
    /\ UNCHANGED << select, chanCtx, op, arg, calls,
                    incs, startSel, solo, advanced, sendFailed, failedSends,
                    exhausted, okVia, last, nest >>

\* self.<channel>.receive_auth_message().await completes with `out`, which
\* is the value of the match and so of the call.
RecvAwaitFailover(p, out) ==
    /\ pc[p] = "recv_await"
    /\ out \in RecvOutcomes(ch[p])
    /\ trace' = [trace EXCEPT ![p] = SetLastOut(@, out)]
    /\ IF out.ok
       THEN /\ pc' = [pc EXCEPT ![p] = "ret"]
            /\ res' = [res EXCEPT ![p] = out]
            /\ UNCHANGED << select, incs >>
       ELSE /\ pc' = [pc EXCEPT ![p] = "recv_load"]
            /\ res' = res
            /\ select' = FetchAdd(select, 1)
            /\ incs' = [incs EXCEPT ![p] = @ + 1]
    /\ okVia' = IF out.ok THEN okVia \cup {ch[p]} ELSE okVia
    /\ exhausted' = (exhausted \/ select' >= 2)
    /\ UNCHANGED << chanCtx, op, sel, ch, arg, calls,
                    startSel, solo, advanced, sendFailed, failedSends,
                    last, nest >>

RecvAwait(p, out) ==
    /\ pc[p] = "recv_await"
    /\ out \in RecvOutcomes(ch[p])
    /\ trace' = [trace EXCEPT ![p] = SetLastOut(@, out)]
    /\ pc' = [pc EXCEPT ![p] = "ret"]
    /\ res' = [res EXCEPT ![p] = out]
    /\ okVia' = IF out.ok THEN okVia \cup {ch[p]} ELSE okVia
    /\ UNCHANGED << select, chanCtx, op, sel, ch, arg, calls,
                    incs, startSel, solo, advanced, sendFailed, failedSends,
                    exhausted, last, nest >>

\* ------------------------------------------------------------ with_context
InstallCallGated(p, c) ==
    /\ c \in Contexts
    /\ \A q \in Procs : ~InFlight(q)
    /\ Begin(p, "install", c)
    /\ pc' = [pc EXCEPT ![p] = IF select >= 2 THEN "ret" ELSE "wc_default"]

\* A caller calls with_context(&mut self, context): no other call on the
\* coordinator is in flight while it runs.
InstallCall(p, c) ==
    /\ c \in Contexts
    /\ \A q \in Procs : ~InFlight(q)
    /\ Begin(p, "install", c)
    /\ pc' = [pc EXCEPT ![p] = "wc_default"]

\* self.default.with_context(context.clone()).await?;
InstallDefaultNoShortCircuit(p, out) ==
    /\ pc[p] = "wc_default"
    /\ out \in UnitOutcomes("default")
    /\ chanCtx' = [chanCtx EXCEPT !["default"] = CloneCtx(arg[p])]
    /\ trace' = [trace EXCEPT ![p] =
                    Append(@, Entry("default", out, CloneCtx(arg[p]), advanced))]
    /\ pc' = [pc EXCEPT ![p] = "wc_other"]
    /\ res' = res
    /\ UNCHANGED << select, op, sel, ch, arg, calls,
                    incs, startSel, solo, advanced, sendFailed, failedSends,
                    exhausted, okVia, last, nest >>

InstallDefault(p, out) ==
    /\ pc[p] = "wc_default"
    /\ out \in UnitOutcomes("default")
    /\ chanCtx' = [chanCtx EXCEPT !["default"] = CloneCtx(arg[p])]
    /\ trace' = [trace EXCEPT ![p] =
                    Append(@, Entry("default", out, CloneCtx(arg[p]), advanced))]
    /\ IF out.ok
       THEN /\ pc' = [pc EXCEPT ![p] = "wc_other"]
            /\ res' = res
       ELSE /\ pc' = [pc EXCEPT ![p] = "ret"]
            /\ res' = [res EXCEPT ![p] = out]
    /\ UNCHANGED << select, op, sel, ch, arg, calls,
                    incs, startSel, solo, advanced, sendFailed, failedSends,
                    exhausted, okVia, last, nest >>

\* self.other.with_context(context).await?;  Ok(())
InstallOtherSkipped(p, out) ==
    /\ pc[p] = "wc_other"
    /\ out \in UnitOutcomes("other")
    /\ pc' = [pc EXCEPT ![p] = "ret"]
    /\ res' = [res EXCEPT ![p] = Ok(Unit)]
    /\ UNCHANGED << select, chanCtx, op, sel, ch, arg, calls, trace,
                    incs, startSel, solo, advanced, sendFailed, failedSends,
                    exhausted, okVia, last, nest >>

InstallOtherCountsFailure(p, out) ==
    /\ pc[p] = "wc_other"
    /\ out \in UnitOutcomes("other")
    /\ chanCtx' = [chanCtx EXCEPT !["other"] = arg[p]]
    /\ trace' = [trace EXCEPT ![p] =
                    Append(@, Entry("other", out, arg[p], advanced))]
    /\ pc' = [pc EXCEPT ![p] = "ret"]
    /\ res' = [res EXCEPT ![p] = IF out.ok THEN Ok(Unit) ELSE out]
    /\ select' = IF out.ok THEN select ELSE FetchAdd(select, 1)
    /\ UNCHANGED << op, sel, ch, arg, calls,
                    incs, startSel, solo, advanced, sendFailed, failedSends,
                    exhausted, okVia, last, nest >>

InstallOther(p, out) ==
    /\ pc[p] = "wc_other"
    /\ out \in UnitOutcomes("other")
    /\ chanCtx' = [chanCtx EXCEPT !["other"] = arg[p]]
    /\ trace' = [trace EXCEPT ![p] =
                    Append(@, Entry("other", out, arg[p], advanced))]
    /\ pc' = [pc EXCEPT ![p] = "ret"]
    /\ res' = [res EXCEPT ![p] = IF out.ok THEN Ok(Unit) ELSE out]
    /\ UNCHANGED << select, op, sel, ch, arg, calls,
                    incs, startSel, solo, advanced, sendFailed, failedSends,
                    exhausted, okVia, last, nest >>

\* ----------------------------------------------------------------- return
\* The caller takes the call's value; the call is over.
Return(p) ==
    /\ pc[p] = "ret"
    /\ pc' = [pc EXCEPT ![p] = "idle"]
    /\ op' = [op EXCEPT ![p] = "none"]
    /\ sel' = [sel EXCEPT ![p] = 0]
    /\ ch' = [ch EXCEPT ![p] = "none"]
    /\ arg' = [arg EXCEPT ![p] = NoCtx]
    /\ res' = [res EXCEPT ![p] = NoRes]
    /\ trace' = [trace EXCEPT ![p] = << >>]
    /\ incs' = [incs EXCEPT ![p] = 0]
    /\ startSel' = [startSel EXCEPT ![p] = 0]
    /\ solo' = [solo EXCEPT ![p] = FALSE]
    /\ last' = Summary(p)
    /\ UNCHANGED << select, chanCtx, calls, advanced, sendFailed, failedSends,
                    exhausted, okVia, nest >>

\* ------------------------------------------------------------ specification
\* CompoundMessenger::new(default, other)
Init ==
    /\ select = 0
    /\ chanCtx = [c \in Channels |-> NoCtx]
    /\ pc = [p \in Procs |-> "idle"]
    /\ op = [p \in Procs |-> "none"]
    /\ sel = [p \in Procs |-> 0]
    /\ ch = [p \in Procs |-> "none"]
    /\ arg = [p \in Procs |-> NoCtx]
    /\ res = [p \in Procs |-> NoRes]
    /\ calls = 0
    /\ trace = [p \in Procs |-> << >>]
    /\ incs = [p \in Procs |-> 0]
    /\ startSel = [p \in Procs |-> 0]
    /\ solo = [p \in Procs |-> FALSE]
    /\ advanced = FALSE
    /\ sendFailed = {}
    /\ failedSends = 0
    /\ exhausted = FALSE
    /\ okVia = {}
    /\ last = LastNone
    /\ nest = NestInit

Next ==
    \/ \E p \in Procs : SendCall(p)
    \/ \E p \in Procs : SendLoad(p)
    \/ \E p \in Procs : \E out \in UnitOutcomes(ch[p]) : SendAwait(p, out)
    \/ \E p \in Procs : SendInc(p)
    \/ \E p \in Procs : RecvCall(p)
    \/ \E p \in Procs : RecvLoad(p)
    \/ \E p \in Procs : \E out \in RecvOutcomes(ch[p]) : RecvAwait(p, out)
    \/ \E p \in Procs : \E c \in Contexts : InstallCall(p, c)
    \/ \E p \in Procs : \E out \in UnitOutcomes("default") : InstallDefault(p, out)
    \/ \E p \in Procs : \E out \in UnitOutcomes("other") : InstallOther(p, out)
    \/ \E p \in Procs : Return(p)

Spec == Init /\ [][Next]_vars

\* The executor keeps polling a send_auth_message future that can make a
\* step, and every channel send that was started returns.
SendFairness ==
    \A p \in Procs :
        /\ WF_vars(SendLoad(p))
        /\ WF_vars(\E out \in UnitOutcomes(ch[p]) : SendAwait(p, out))
        /\ WF_vars(SendInc(p))

FairNext == Next /\ calls' <= MaxFairCalls

FairSpec == Init /\ [][FairNext]_vars /\ SendFairness

\* ----------------------------------------------------------------- nesting
\* outer = CompoundMessenger::new(CompoundMessenger::new(A, B), C), used by
\* one caller, one call at a time.  Both levels run the code above: the
\* outer's default is the inner coordinator, whose send_auth_message and
\* receive_auth_message are the same loop and match over the inner's own
\* select.  nest.osel and nest.isel are the two counters, nest.opc and
\* nest.ipc the positions of the outer and of the inner call.
flat == << select, chanCtx, pc, op, sel, ch, arg, res, calls,
           trace, incs, startSel, solo, advanced, sendFailed, failedSends,
           exhausted, okVia, last >>

Leaves == {"A", "B", "C"}

Rank(l) == IF l = "A" THEN 1 ELSE IF l = "B" THEN 2 ELSE 3

\* The leaf behind a channel of the inner coordinator.
InnerLeaf(c) == IF c = "default" THEN "A" ELSE "B"

Route(o, s) == IF o = "send" THEN SendRoute(s) ELSE RecvRoute(s)

Terminal(o) == IF o = "send" THEN ErrNoSend ELSE ErrNoRecv

Outcomes(o, c) == IF o = "send" THEN UnitOutcomes(c) ELSE RecvOutcomes(c)

\* A leaf channel has returned `out` to the call in flight.
Invoked(l, out) ==
    [nest EXCEPT !.tr = Append(@, [ch |-> l, out |-> out,
                                   was |-> l \in nest.failed]),
                 !.failed = IF nest.oop = "send" /\ ~out.ok
                            THEN @ \cup {l} ELSE @]

\* The caller calls outer.send_auth_message() or outer.receive_auth_message().
NestCall(o) ==
    /\ o \in {"send", "recv"}
    /\ nest.opc = "idle"
    /\ nest.n < MaxNestCalls
    /\ nest' = [nest EXCEPT !.opc = "load", !.oop = o, !.n = @ + 1,
                            !.tr = << >>, !.ores = NoRes]
    /\ UNCHANGED flat

\* outer: match self.select.load(Acquire): 0 calls the inner coordinator,
\* 1 calls C, anything else is the outer's own error.
NestOuterLoad ==
    /\ nest.opc = "load"
    /\ nest' = IF Route(nest.oop, nest.osel) = "default"
               THEN [nest EXCEPT !.opc = "inner", !.ipc = "load",
                                 !.ires = NoRes]
               ELSE IF Route(nest.oop, nest.osel) = "other"
               THEN [nest EXCEPT !.opc = "leafC"]
               ELSE [nest EXCEPT !.opc = "ret", !.ores = Terminal(nest.oop)]
    /\ UNCHANGED flat

\* inner: match self.select.load(Acquire): 0 calls A, 1 calls B, anything
\* else is the inner's own error.
NestInnerLoad ==
    /\ nest.opc = "inner"
    /\ nest.ipc = "load"
    /\ nest' = IF Route(nest.oop, nest.isel) = "none"
               THEN [nest EXCEPT !.ipc = "ret", !.ires = Terminal(nest.oop)]
               ELSE [nest EXCEPT !.ipc = "leaf",
                                 !.ich = Route(nest.oop, nest.isel)]
    /\ UNCHANGED flat

\* inner: A or B returns `out`; a send's Err goes on to the fetch_add, any
\* other result is the inner call's result.
NestInnerLeaf(out) ==
    /\ nest.ipc = "leaf"
    /\ out \in Outcomes(nest.oop, nest.ich)
    /\ nest' = IF nest.oop = "send" /\ ~out.ok
               THEN [Invoked(InnerLeaf(nest.ich), out) EXCEPT !.ipc = "inc"]
               ELSE [Invoked(InnerLeaf(nest.ich), out) EXCEPT
                        !.ipc = "ret", !.ires = out]
    /\ UNCHANGED flat

\* inner: self.select.fetch_add(1, AcqRel); continue;
NestInnerInc ==
    /\ nest.ipc = "inc"
    /\ nest' = [nest EXCEPT !.isel = FetchAdd(@, 1), !.ipc = "load"]
    /\ UNCHANGED flat

\* outer: self.default.<op>().await returns the inner call's result.
NestInnerReturn ==
    /\ nest.opc = "inner"
    /\ nest.ipc = "ret"
    /\ nest' = IF nest.oop = "send" /\ ~nest.ires.ok
               THEN [nest EXCEPT !.ipc = "idle", !.opc = "inc"]
               ELSE [nest EXCEPT !.ipc = "idle", !.opc = "ret",
                                 !.ores = nest.ires]
    /\ UNCHANGED flat

\* outer: C returns `out`.
NestLeafC(out) ==
    /\ nest.opc = "leafC"
    /\ out \in Outcomes(nest.oop, "other")
    /\ nest' = IF nest.oop = "send" /\ ~out.ok
               THEN [Invoked("C", out) EXCEPT !.opc = "inc"]
               ELSE [Invoked("C", out) EXCEPT !.opc = "ret", !.ores = out]
    /\ UNCHANGED flat

\* outer: self.select.fetch_add(1, AcqRel); continue;
NestOuterInc ==
    /\ nest.opc = "inc"
    /\ nest' = [nest EXCEPT !.osel = FetchAdd(@, 1), !.opc = "load"]
    /\ UNCHANGED flat

\* The caller takes the outer call's value.  nest.sentOn keeps the leaf on
\* which the latest send_auth_message succeeded, if it did.
NestReturn ==
    /\ nest.opc = "ret"
    /\ nest' = [nest EXCEPT
                  !.opc = "idle", !.oop = "none", !.ich = "none",
                  !.ires = NoRes, !.ores = NoRes, !.tr = << >>,
                  !.sentOn = IF nest.oop # "send" THEN @
                             ELSE IF nest.ores.ok
                             THEN nest.tr[Len(nest.tr)].ch
                             ELSE "none"]
    /\ UNCHANGED flat

NestNext ==
    \/ \E o \in {"send", "recv"} : NestCall(o)
    \/ NestOuterLoad
    \/ NestInnerLoad
    \/ \E out \in Outcomes(nest.oop, nest.ich) : NestInnerLeaf(out)
    \/ NestInnerInc
    \/ NestInnerReturn
    \/ \E out \in Outcomes(nest.oop, "other") : NestLeafC(out)
    \/ NestOuterInc
    \/ NestReturn

NestSpec == Init /\ [][NestNext]_vars

TypeOK ==
    /\ select \in 0 .. (2 * MaxCalls)
    /\ pc \in [Procs -> {"idle", "send_load", "send_await", "send_inc",
                         "recv_load", "recv_await", "wc_default", "wc_other",
                         "ret"}]
    /\ op \in [Procs -> {"none", "send", "recv", "install"}]
    /\ calls \in 0 .. MaxCalls

\* ---------------------------------------------------------------- properties
Attempts(p) == 1 .. Len(trace[p])

\* Every send of `c` in p's call returned Ok (b = TRUE) or Err (b = FALSE).
SendsOn(p, c, b) == \A i \in Attempts(p) : trace[p][i].ch = c => trace[p][i].out.ok = b

\* A send_auth_message call that has returned, started with select = 0 and
\* with no other call in flight from its start to its return.
SoloSendFromZero(p) ==
    /\ op[p] = "send"
    /\ pc[p] = "ret"
    /\ solo[p]
    /\ startSel[p] = 0

\* C1 (P1, monotonicity): select starts at 0 and no step of with_context,
\* send_auth_message or receive_auth_message, in any interleaving, makes it
\* smaller; in particular it never wraps.
C1_Monotonic == (select = 0) /\ [][select' >= select]_vars

C1_Witness == select = 2 /\ advanced

\* C2 (P2, sticky failover): a send or receive whose load of select comes
\* after a send has failed on default and run its fetch_add never invokes
\* default; the channel it invokes, if any, is other.
C2_StickyFailover ==
    \A p \in Procs : op[p] \in {"send", "recv"} =>
        \A i \in Attempts(p) : trace[p][i].adv => trace[p][i].ch = "other"

C2_Witness ==
    \E p, q \in Procs :
        /\ op[p] = "send" /\ op[q] = "recv"
        /\ \E i \in Attempts(p) : trace[p][i].adv /\ trace[p][i].ch = "other"
        /\ \E i \in Attempts(q) : trace[q][i].adv /\ trace[q][i].ch = "other"

\* C3 (P3, terminal exhaustion): a send or receive that starts with
\* select >= 2 invokes no channel, runs no fetch_add and returns the
\* coordinator's own error: "No Messengers available to send" for send,
\* "No Messengers receive successfully" for receive.
C3_TerminalExhaustion ==
    \A p \in Procs : (op[p] \in {"send", "recv"} /\ startSel[p] >= 2) =>
        /\ trace[p] = << >>
        /\ incs[p] = 0
        /\ pc[p] \in {"send_load", "recv_load", "ret"}
        /\ pc[p] = "ret" =>
              res[p] = IF op[p] = "send" THEN ErrNoSend ELSE ErrNoRecv

C3_Witness ==
    \E p, q \in Procs :
        /\ op[p] = "send" /\ pc[p] = "ret" /\ startSel[p] >= 2
        /\ op[q] = "recv" /\ pc[q] = "ret" /\ startSel[q] >= 2
        /\ sendFailed = Channels

\* C4: whenever send_auth_message returns an error, the send of default and
\* the send of other have each been attempted and have each failed, in every
\* interleaving of concurrent send_auth_message calls.
C4_ErrorOnlyAfterBothFailed ==
    \A p \in Procs : (op[p] = "send" /\ pc[p] = "ret" /\ ~res[p].ok) =>
        sendFailed = Channels

\* C5 (scenario A): a send_auth_message that runs alone from select = 0,
\* with default's send failing and other's send succeeding, invokes default
\* once, then other once, returns Ok and leaves select = 1.
C5_ScenarioA ==
    \A p \in Procs :
        (SoloSendFromZero(p) /\ SendsOn(p, "default", FALSE)
                             /\ SendsOn(p, "other", TRUE)) =>
            /\ Len(trace[p]) = 2
            /\ trace[p][1].ch = "default"
            /\ trace[p][2].ch = "other"
            /\ res[p] = Ok(Unit)
            /\ select = 1

C5_Witness ==
    \E p \in Procs :
        /\ SoloSendFromZero(p)
        /\ Len(trace[p]) = 2
        /\ ~trace[p][1].out.ok
        /\ trace[p][2].out.ok

\* C6 (scenario C): a send_auth_message that runs alone from select = 0,
\* with both channels' sends failing, invokes default once and other once,
\* leaves select = 2 and returns "No Messengers available to send", not the
\* error of either channel.
C6_ScenarioC ==
    \A p \in Procs :
        (SoloSendFromZero(p) /\ SendsOn(p, "default", FALSE)
                             /\ SendsOn(p, "other", FALSE)) =>
            /\ Len(trace[p]) = 2
            /\ trace[p][1].ch = "default"
            /\ trace[p][2].ch = "other"
            /\ res[p] = ErrNoSend
            /\ res[p] \notin {ChannelErr(c) : c \in Channels}
            /\ select = 2

C6_Witness ==
    \E p \in Procs :
        /\ SoloSendFromZero(p)
        /\ Len(trace[p]) = 2
        /\ ~trace[p][1].out.ok
        /\ ~trace[p][2].out.ok

\* C7 (scenario B): a channel send that returns Ok ends the call at once with
\* Ok(()) and adds no fetch_add: when it is the call's first attempt, the
\* call has invoked that one channel once and run no fetch_add, so that a
\* call running alone leaves select as it found it (0 stays 0, 1 stays 1).
C7_SuccessChangesNothing ==
    \A p \in Procs : op[p] = "send" =>
        \A i \in Attempts(p) : trace[p][i].out.ok =>
            /\ i = Len(trace[p])
            /\ pc[p] = "ret"
            /\ res[p] = Ok(Unit)
            /\ incs[p] = i - 1
            /\ (i = 1 /\ solo[p]) => select = startSel[p]

C7_Witness ==
    \E p \in Procs :
        /\ op[p] = "send" /\ pc[p] = "ret" /\ solo[p]
        /\ startSel[p] = 1
        /\ Len(trace[p]) = 1
        /\ trace[p][1].out.ok

\* C8: receive_auth_message invokes exactly one channel's receive, default
\* if its load of select returned 0 and other if it returned 1, returns what
\* that channel returned, code or error, and no step of it changes select.
C8_RecvInv ==
    \A p \in Procs : op[p] = "recv" =>
        /\ incs[p] = 0
        /\ Len(trace[p]) <= 1
        /\ pc[p] \in {"recv_await", "ret"} /\ sel[p] = 0 =>
              (Len(trace[p]) = 1 /\ trace[p][1].ch = "default")
        /\ pc[p] \in {"recv_await", "ret"} /\ sel[p] = 1 =>
              (Len(trace[p]) = 1 /\ trace[p][1].ch = "other")
        /\ (pc[p] = "ret" /\ Len(trace[p]) = 1) => res[p] = trace[p][1].out

C8_RecvFrame ==
    \A p \in Procs : (op[p] = "recv" /\ pc'[p] # pc[p]) => select' = select

C8_ReceiveNoFailover == []C8_RecvInv /\ [][C8_RecvFrame]_vars

C8_Witness ==
    \E p \in Procs :
        /\ op[p] = "recv" /\ pc[p] = "ret"
        /\ sel[p] = 1
        /\ Len(trace[p]) = 1
        /\ ~trace[p][1].out.ok
        /\ res[p] = ChannelErr("other")

\* C9 (P4, install short-circuit): when default's with_context fails,
\* with_context returns that error at once and other's with_context is not
\* invoked by the call.
C9_InstallShortCircuit ==
    \A p \in Procs :
        (op[p] = "install" /\ Len(trace[p]) >= 1 /\ ~trace[p][1].out.ok) =>
            /\ trace[p][1].ch = "default"
            /\ Len(trace[p]) = 1
            /\ pc[p] = "ret"
            /\ res[p] = trace[p][1].out

C9_Witness ==
    \E p \in Procs :
        /\ op[p] = "install" /\ pc[p] = "ret"
        /\ res[p] = ChannelErr("default")
        /\ chanCtx["other"] = NoCtx

\* C10 (P5, context fan-out): when with_context returns Ok, default and then
\* other have each been given a context equal to the one passed in.
C10_ContextFanOut ==
    \A p \in Procs : (op[p] = "install" /\ pc[p] = "ret" /\ res[p].ok) =>
        /\ Len(trace[p]) = 2
        /\ trace[p][1].ch = "default" /\ trace[p][1].arg = arg[p]
        /\ trace[p][2].ch = "other" /\ trace[p][2].arg = arg[p]
        /\ chanCtx["default"] = arg[p]
        /\ chanCtx["other"] = arg[p]

C10_Witness ==
    \E p \in Procs :
        /\ op[p] = "install" /\ pc[p] = "ret" /\ res[p] = Ok(Unit)
        /\ arg[p].csrf = None
        /\ chanCtx["other"] = arg[p]

\* C11: with_context does not depend on select: at 0, 1 and 2 or more it
\* calls default's with_context first and, unless that failed, other's, and
\* select is the same at every step of the call, whether it returns Ok or Err.
C11_InstallIndependent ==
    \A p \in Procs : op[p] = "install" =>
        /\ select = startSel[p]
        /\ incs[p] = 0
        /\ Len(trace[p]) >= 1 => trace[p][1].ch = "default"
        /\ Len(trace[p]) >= 2 => (Len(trace[p]) = 2 /\ trace[p][2].ch = "other")
        /\ pc[p] = "wc_default" => Len(trace[p]) = 0
        /\ pc[p] = "wc_other" => (Len(trace[p]) = 1 /\ trace[p][1].out.ok)
        /\ pc[p] = "ret" =>
              (Len(trace[p]) >= 1 /\ (trace[p][1].out.ok => Len(trace[p]) = 2))

C11_Witness ==
    \E p \in Procs :
        /\ op[p] = "install" /\ pc[p] = "ret"
        /\ startSel[p] = 2
        /\ Len(trace[p]) = 2
        /\ res[p] = ChannelErr("other")

\* C12 as claimed: once select >= 2 no operation leaves that state, and no
\* call started there returns Ok: not send_auth_message, not
\* receive_auth_message, not with_context.
C12_NothingSucceedsExhausted ==
    /\ exhausted => select >= 2
    /\ \A p \in Procs : (InFlight(p) /\ startSel[p] >= 2 /\ pc[p] = "ret") =>
          ~res[p].ok

\* C12 as amended: once select >= 2 no operation leaves that state, and no
\* send_auth_message or receive_auth_message started there returns Ok
\* (with_context does not read select and can still return Ok).
C12_ExhaustedTerminal ==
    /\ exhausted => select >= 2
    /\ \A p \in Procs :
          (op[p] \in {"send", "recv"} /\ startSel[p] >= 2 /\ pc[p] = "ret") =>
              ~res[p].ok

C12_Witness ==
    /\ exhausted
    /\ select > 2
    /\ \E p \in Procs :
          op[p] = "send" /\ startSel[p] > 2 /\ pc[p] = "ret" /\ res[p] = ErrNoSend

\* C13 as claimed: the calls that return Ok are not served by both channels.
C13_OnePathOnly == Cardinality(okVia) <= 1

\* C13 as amended: calls may return Ok through both channels in one run, but
\* only forwards: once a call has returned Ok through other, a call whose
\* load of select comes afterwards never invokes default.
C13_PathsOnlyForward ==
    \A p \in Procs : op[p] \in {"send", "recv"} =>
        \A i \in Attempts(p) :
            trace[p][i].okv => trace[p][i].ch = "other"

C13_Witness ==
    /\ okVia = Channels
    /\ \E p \in Procs : \E i \in Attempts(p) :
          /\ trace[p][i].okv
          /\ trace[p][i].ch = "other"
          /\ trace[p][i].out.ok

\* C15: select only ever holds 0, 1 or 2, and it is advanced once per failed
\* channel, also when concurrent send_auth_message calls fail on the same
\* channel: it never exceeds the number of channels whose send has failed.
C15_OneAdvancePerFailedChannel ==
    /\ select \in {0, 1, 2}
    /\ select <= Cardinality(sendFailed)

\* C16: in every interleaving, a send_auth_message call whose attempt on
\* default failed makes exactly one attempt on other before it returns.
C16_OneFallbackAttempt ==
    \A p \in Procs :
        (/\ op[p] = "send" /\ pc[p] = "ret"
         /\ Len(trace[p]) >= 1
         /\ trace[p][1].ch = "default" /\ ~trace[p][1].out.ok) =>
            (Len(trace[p]) = 2 /\ trace[p][2].ch = "other")

\* A receive_auth_message call that was the first call to start after a
\* send_auth_message returned Ok, and that has done its load of select.
RecvNextAfterSendOk(p) ==
    /\ op[p] = "recv"
    /\ last.kind = "sendOk"
    /\ last.next = p
    /\ pc[p] \in {"recv_await", "ret"}

\* C17 as claimed: a receive_auth_message issued next after a successful
\* send_auth_message is routed to the channel on which that send succeeded
\* and returns that channel's result, also with other sends in flight.
C17_RecvFollowsLastSend ==
    \A p \in Procs : RecvNextAfterSendOk(p) =>
        /\ Len(trace[p]) = 1
        /\ trace[p][1].ch = last.ch
        /\ pc[p] = "ret" => res[p] = trace[p][1].out

\* C17 as amended: that receive is routed by the value of select at its own
\* load.  It goes to the channel of the send, and returns that channel's
\* result unchanged, whenever its load returns the value the send's last load
\* returned, which is so whenever the send and the receive each ran with no
\* other call in flight; otherwise a send in flight has advanced select, which
\* is then larger.
C17_RecvFollowsSelection ==
    \A p \in Procs : RecvNextAfterSendOk(p) =>
        /\ sel[p] >= last.sel
        /\ (solo[p] /\ last.solo) => sel[p] = last.sel
        /\ sel[p] = last.sel =>
              /\ Len(trace[p]) = 1
              /\ trace[p][1].ch = last.ch
              /\ pc[p] = "ret" => res[p] = trace[p][1].out

C17_Witness ==
    \E p \in Procs :
        /\ RecvNextAfterSendOk(p)
        /\ pc[p] = "ret"
        /\ ~solo[p]
        /\ last.ch = "other"
        /\ sel[p] = last.sel
        /\ res[p] = Ok("code")

\* C19: when default's with_context returns Ok and other's returns Err,
\* with_context returns other's error, default keeps the context it was
\* given, select is unchanged, and the send_auth_message that follows a
\* partial install done at select = 0 goes to default first.
C19_PartialInstall ==
    /\ \A p \in Procs :
          (/\ op[p] = "install" /\ pc[p] = "ret"
           /\ Len(trace[p]) = 2
           /\ trace[p][1].out.ok /\ ~trace[p][2].out.ok) =>
              /\ res[p] = ChannelErr("other")
              /\ chanCtx["default"] = arg[p]
              /\ select = startSel[p]
    /\ \A p \in Procs :
          (op[p] = "send" /\ last.kind = "partial" /\ last.next = p) =>
              /\ startSel[p] = last.sel
              /\ chanCtx["default"] \in Contexts
              /\ last.sel = 0 =>
                    /\ pc[p] # "send_load" => Len(trace[p]) >= 1
                    /\ Len(trace[p]) >= 1 => trace[p][1].ch = "default"

C19_Witness ==
    \E p \in Procs :
        /\ op[p] = "send" /\ last.kind = "partial" /\ last.next = p
        /\ last.sel = 0
        /\ pc[p] = "ret"
        /\ trace[p][1].ch = "default"

\* C20: whenever no send_auth_message stands between a failed channel send
\* and its fetch_add, select equals the number of failed channel sends since
\* construction; failed receives, failed installs and successful sends add
\* nothing.
C20_CounterAccounting ==
    (\A p \in Procs : pc[p] # "send_inc") => select = failedSends

C20_Witness ==
    /\ \A p \in Procs : pc[p] # "send_inc"
    /\ failedSends = 1
    /\ select = 1
    /\ "other" \in okVia
    /\ \E p \in Procs :
          op[p] = "recv" /\ pc[p] = "ret" /\ res[p] = ChannelErr("other")

\* C18: if every channel send returns, every send_auth_message call returns;
\* and in every interleaving one call makes at most two channel send
\* attempts, never two on the same channel, and at most two fetch_adds.
C18_Bounded ==
    \A p \in Procs : op[p] = "send" =>
        /\ Len(trace[p]) <= 2
        /\ incs[p] <= 2
        /\ Len(trace[p]) = 2 => trace[p][1].ch # trace[p][2].ch

C18_BoundedRetry ==
    /\ []C18_Bounded
    /\ \A p \in Procs : (op[p] = "send") ~> (op[p] = "send" /\ pc[p] = "ret")

C18_Witness ==
    \E p \in Procs :
        /\ op[p] = "send" /\ pc[p] = "ret"
        /\ ~solo[p]
        /\ Len(trace[p]) = 2
        /\ incs[p] = 2
        /\ select > 2

\* C14: outer = new(new(A, B), C), used sequentially, is an ordered failover
\* over A, B, C.  A send attempts the leaves in that order, each at most
\* once, skipping only leaves whose send has failed before, never one of
\* those again, and stops at the first Ok; it returns Err only when the sends
\* of all three have failed.  A receive after a successful send invokes the
\* leaf on which that send succeeded and returns its result.
C14_ThreeChannelFailover ==
    LET tr == nest.tr
        done == nest.opc = "ret"
    IN  /\ nest.oop = "send" =>
              /\ \A i \in 1 .. Len(tr) : ~tr[i].was
              /\ \A i, j \in 1 .. Len(tr) :
                    i < j => Rank(tr[i].ch) < Rank(tr[j].ch)
              /\ \A i \in 1 .. Len(tr) : \A l \in Leaves :
                    Rank(l) < Rank(tr[i].ch) => l \in nest.failed
              /\ \A i \in 1 .. Len(tr) : tr[i].out.ok =>
                    (i = Len(tr) /\ nest.opc \in {"inner", "ret"})
              /\ (done /\ nest.ores.ok) =>
                    (Len(tr) >= 1 /\ tr[Len(tr)].out.ok)
              /\ (done /\ ~nest.ores.ok) =>
                    (nest.failed = Leaves /\ nest.ores = ErrNoSend)
        /\ (nest.oop = "recv" /\ nest.sentOn # "none" /\ done) =>
              /\ Len(tr) = 1
              /\ tr[1].ch = nest.sentOn
              /\ nest.ores = tr[1].out

C14_Witness ==
    /\ nest.oop = "recv"
    /\ nest.opc = "ret"
    /\ nest.sentOn = "C"
    /\ nest.failed = {"A", "B"}
    /\ nest.ores = Ok("code")

====
